---- MODULE Spec2Model ----
(***************************************************************************)
(* terraform-operator-plugin-manager.                                      *)
(*                                                                         *)
(* Part I   the certificate lifecycle loop of main.go (Manager.certMgmt),  *)
(*          the main goroutine that waits for readiness, the secret, the   *)
(*          mounted certificate files and the webhook registration.        *)
(* Part II  the admission handlers (mutate) of the webserver package.      *)
(***************************************************************************)
EXTENDS Integers, Sequences, FiniteSets, TLC

(***************************************************************************)
(* Bounds of the model.                                                    *)
(***************************************************************************)
\* certificate generations the CertificateAuthority may issue in one run
MaxGen == 3
\* the clock runs over the days 0..MaxNow
MaxNow == 2
\* lifetime, in days, of a leaf issued by the selfsigned library
CertLifetimeDays == 31
\* single-file changes of the mounted directory by something else than the kubelet
MaxEnvWrites == 1
\* healthy cycles counted by the history
MaxHealthy == 2

(***************************************************************************)
(* Program constants.                                                      *)
(***************************************************************************)
\* main.go:173  CurrentTime: t.Add(24 * 30 * time.Hour)
ValidityWindowDays == 30
\* main.go:302  time.Duration(10 * time.Second), in seconds
ShortInterval == 10
\* main.go:372  time.Duration(24 * time.Hour), in seconds
LongInterval == 86400

VARIABLES
    \* ---- Part I: cluster and file system
    secret,        \* the stored secret: [exists, data: Fields -> Blob]
    mounted,       \* the four mounted files: Fields -> Blob
    issued,        \* what the CertificateAuthority issued: gen -> [signer, notAfter]
    nGen,          \* number of generations issued so far
    now,           \* the clock, in days
    wh,            \* the mutating webhook configuration: [exists, caBundle]
    envWrites,     \* single-file changes made so far
    \* ---- Part I: the process
    lpc,           \* position of the goroutine running certMgmt
    mpc,           \* position of the main goroutine
    started,       \* m.started of certMgmt's receiver copy
    recheckAfter,  \* certMgmt's local recheckAfter, in seconds
    secretL,       \* certMgmt's local secret.Data of this cycle
    filesL,        \* certMgmt's locals caKey, caCert, tlsKey, tlsCert of this cycle
    cyc,           \* what the current cycle did (history)
    hist,          \* what the run did (history)
    \* ---- Part II: one admission request at a time
    variant,       \* which webserver package runs: "v1alpha2", "v1beta1", "single"
    req,           \* the request being handled
    dir,           \* the policy directory (directory-based variants)
    mutfile,       \* the plugin mutations file (single-file variant)
    tf,            \* mutate's local terraform
    idx,           \* position of mutate's loop in the directory listing
    todo,          \* keys the loop over m.pluginMutations has not visited yet
    hpc,           \* position of the handler
    resp,          \* what the handler answered
    mh,            \* what the handler did (history)
    \* ---- Part II: mergeTaskOptions on its own
    mergeIn,       \* [old, new]
    mergeOut,      \* the result of the call
    mergePc        \* "idle", "called", "returned"

certVars == <<secret, mounted, issued, nGen, now, wh, envWrites, lpc, mpc, started,
              recheckAfter, secretL, filesL, cyc, hist>>
handlerVars == <<variant, req, dir, mutfile, tf, idx, todo, hpc, resp, mh>>
mergeVars == <<mergeIn, mergeOut, mergePc>>
mutVars == <<handlerVars, mergeVars>>
vars == <<certVars, mutVars>>

(***************************************************************************)
(* Part I.  Certificate material.                                          *)
(***************************************************************************)
Fields == {"ca.key", "ca.crt", "tls.key", "tls.crt"}

\* A blob is the content of one file or of one secret field.  A PEM blob of
\* generation g is the artifact of that field issued as generation g.
MissingBlob == [kind |-> "missing", gen |-> 0]
GarbageBlob == [kind |-> "garbage", gen |-> 0]
PemBlob(g) == [kind |-> "pem", gen |-> g]

\* the CA certificate of a bundle that is no longer stored
StaleCA == PemBlob(0)

NoData == [f \in Fields |-> MissingBlob]
NoSecret == [exists |-> FALSE, data |-> NoData]
NoWebhook == [exists |-> FALSE, caBundle |-> MissingBlob]
Unissued == [signer |-> 0, notAfter |-> 0]

\* selfsigned.NewSelfSignedCertOrDie: a new CA and a leaf signed by it
NewBundleData(g) == [f \in Fields |-> PemBlob(g)]

\* a mutant: the leaf is not regenerated
UpdatedTLSDataStale(files, g) == files

\* selfSignedCert.UpdateTLS: a new leaf under the CA the struct carries
UpdatedTLSData(files, g) ==
    [f \in Fields |-> IF f \in {"tls.key", "tls.crt"} THEN PemBlob(g) ELSE files[f]]

\* a mutant: every stat succeeds
fileAlwaysFound(fs, f) == TRUE

\* fileExistAndIsNotEmpty
fileExistAndIsNotEmpty(fs, f) == fs[f].kind # "missing"

\* isX509Format: PEM-decodable and a private key or a certificate
isX509Format(b) == b.kind = "pem"

\* a mutant: the leaf is verified at the current time
isCertValidToday(caCert, tlsCert, t, reg) ==
    /\ caCert.kind = "pem"
    /\ tlsCert.kind = "pem"
    /\ tlsCert.gen \in DOMAIN reg
    /\ reg[tlsCert.gen].signer = caCert.gen
    /\ t <= reg[tlsCert.gen].notAfter

\* isCertValid: the CA parses, the leaf parses, and the leaf verifies against
\* the CA at now + 30 days
isCertValid(caCert, tlsCert, t, reg) ==
    /\ caCert.kind = "pem"
    /\ tlsCert.kind = "pem"
    /\ tlsCert.gen \in DOMAIN reg
    /\ reg[tlsCert.gen].signer = caCert.gen
    /\ t + ValidityWindowDays <= reg[tlsCert.gen].notAfter

\* a mutant: the comparison looks at the two CA fields only
SecretEqualsFilesCAOnly(sd, files) ==
    sd["ca.key"] = files["ca.key"] /\ sd["ca.crt"] = files["ca.crt"]

\* the comparison of main.go:367-370
SecretEqualsFiles(sd, files) == \A f \in Fields : sd[f] = files[f]

AllX509(files) == \A f \in Fields : isX509Format(files[f])

\* a mutant: the files are not compared with the secret
ClassifyNoCompare(sd, files, t, reg) ==
    IF ~AllX509(files) THEN "badformat"
    ELSE IF isCertValid(files["ca.crt"], files["tls.crt"], t, reg)
         THEN "healthy" ELSE "rotating"

\* a mutant: the comparison looks at the two leaf fields only
ClassifyLeafOnly(sd, files, t, reg) ==
    IF ~AllX509(files) THEN "badformat"
    ELSE IF sd["tls.key"] = files["tls.key"] /\ sd["tls.crt"] = files["tls.crt"]
         THEN (IF isCertValid(files["ca.crt"], files["tls.crt"], t, reg)
               THEN "healthy" ELSE "rotating")
         ELSE "drifted"

\* a mutant: files that differ from the secret are rotated too
ClassifyRotatesOnDrift(sd, files, t, reg) ==
    IF ~AllX509(files) THEN "badformat"
    ELSE IF SecretEqualsFiles(sd, files)
            /\ isCertValid(files["ca.crt"], files["tls.crt"], t, reg)
         THEN "healthy" ELSE "rotating"

\* the branch certMgmt takes once the four files are read (main.go:333-390)
Classify(sd, files, t, reg) ==
    IF ~AllX509(files) THEN "badformat"
    ELSE IF SecretEqualsFiles(sd, files)
         THEN (IF isCertValid(files["ca.crt"], files["tls.crt"], t, reg)
               THEN "healthy" ELSE "rotating")
         ELSE "drifted"

\* a mutant: only the healthy branch assigns the interval
RecheckAfterKept(o, prev) == IF o = "healthy" THEN LongInterval ELSE prev

\* recheckAfter when the branch is entered (main.go:335, 341, 347, 353, 372,
\* 389); the rotating branch assigns it after UpdateSecret (main.go:385)
RecheckAfterOf(o, prev) ==
    IF o = "healthy" THEN LongInterval
    ELSE IF o = "rotating" THEN prev
    ELSE ShortInterval

\* missing: a file was missing or empty when the cycle took its stats;
\* at: the day the cycle classified what it read
FreshCycle == [read |-> FALSE, outcome |-> "none", met |-> "none",
               createdSecret |-> FALSE, updatedSecret |-> FALSE,
               lookup |-> FALSE, whCreated |-> FALSE, sent |-> FALSE,
               missing |-> FALSE, at |-> 0]

FreshHist(whExists) ==
    [nSent |-> 0, nCreate |-> 0, nUpdate |-> 0, healthyDone |-> 0,
     sentAtHealthy |-> 0, observedValid |-> FALSE, whInit |-> whExists,
     panicCause |-> "none"]

Min(a, b) == IF a < b THEN a ELSE b

(***************************************************************************)
(* Part II.  Resources, task options and policies.                         *)
(***************************************************************************)
\* env and env-from entries of one task option or one template
MaxEnvLen == 2

EnvNames == {"A", "B"}
EnvValues == {"0", "1"}
EnvVar(n, v) == [name |-> n, value |-> v]
EnvVars == {EnvVar(n, v) : n \in EnvNames, v \in EnvValues}

SeqsUpTo(S, n) == UNION {[1..k -> S] : k \in 0..n}
Range(f) == {f[x] : x \in DOMAIN f}
\* the orders in which a range over a Go map may visit the entries S
Orders(S) == {p \in [1..Cardinality(S) -> S] : \A x \in S : \E i \in DOMAIN p : p[i] = x}

\* a Go map[string]string: nil, or a map
NilMap == [nil |-> TRUE, kv |-> <<>>]
MapOf(f) == [nil |-> FALSE, kv |-> f]

\* corev1.EnvFromSource{Prefix, ConfigMapRef *..., SecretRef *...}: ref names
\* what the pointer points to, "" when both pointers are nil
EnvFromSource(p, r) == [prefix |-> p, ref |-> r]

\* tfv1beta1.TaskOption / tfv1alpha2.TaskOption
BaseOption ==
    [for |-> <<>>, env |-> <<>>, envFrom |-> <<>>, labels |-> NilMap,
     annotations |-> NilMap, restartPolicy |-> "", resources |-> "", script |-> ""]

(***************************************************************************)
(* mergeTaskOptions (part_001:164-211, part_002:111-158)                   *)
(***************************************************************************)
EnvNamesOf(env) == {env[i].name : i \in DOMAIN env}

\* for i, env := range newTaskOption.Env { envIndexMap[env.Name] = i }
EnvIndexMap(newEnv) ==
    [n \in EnvNamesOf(newEnv) |->
       CHOOSE i \in DOMAIN newEnv :
         /\ newEnv[i].name = n
         /\ \A j \in DOMAIN newEnv : newEnv[j].name = n => j <= i]

Without(m, k) == [x \in DOMAIN m \ {k} |-> m[x]]

\* the loop over oldTaskOption.Env from position i on: replace in place and
\* delete the name from the index map
RECURSIVE EnvReplacePass(_, _, _, _)
EnvReplacePass(env, newEnv, idxMap, i) ==
    IF i > Len(env) THEN [env |-> env, left |-> idxMap]
    ELSE IF env[i].name \notin DOMAIN idxMap
      THEN EnvReplacePass(env, newEnv, idxMap, i + 1)
    ELSE EnvReplacePass([env EXCEPT ![i] = newEnv[idxMap[env[i].name]]], newEnv,
                        Without(idxMap, env[i].name), i + 1)

\* the key an env-from entry is in a map[corev1.EnvFromSource]int: the struct
\* holds pointers, so two entries with a reference are the same key only when
\* they are the same allocation.  alloc is 0 for an entry without pointers,
\* the position in the template for a template entry, -1 for an entry that
\* came with the resource.
NewEnvFromKey(newEF, j) ==
    [alloc |-> IF newEF[j].ref = "" THEN 0 ELSE j, src |-> newEF[j]]
OldEnvFromKey(s) == [alloc |-> IF s.ref = "" THEN 0 ELSE -1, src |-> s]

\* for i, envFromSource := range newTaskOption.EnvFrom { envFromIndexMap[envFromSource] = i }
EnvFromIndexMap(newEF) ==
    [k \in {NewEnvFromKey(newEF, j) : j \in DOMAIN newEF} |->
       CHOOSE i \in DOMAIN newEF :
         /\ NewEnvFromKey(newEF, i) = k
         /\ \A j \in DOMAIN newEF : NewEnvFromKey(newEF, j) = k => j <= i]

RECURSIVE EnvFromReplacePass(_, _, _, _)
EnvFromReplacePass(ef, newEF, idxMap, i) ==
    IF i > Len(ef) THEN [envFrom |-> ef, left |-> idxMap]
    ELSE IF OldEnvFromKey(ef[i]) \notin DOMAIN idxMap
      THEN EnvFromReplacePass(ef, newEF, idxMap, i + 1)
    ELSE EnvFromReplacePass([ef EXCEPT ![i] = newEF[idxMap[OldEnvFromKey(ef[i])]]],
                            newEF, Without(idxMap, OldEnvFromKey(ef[i])), i + 1)

\* for k, v := range new { old[k] = v } panics when old is nil and new is not empty
WritesNilMap(old, new) == old.nil /\ DOMAIN new.kv # {}

MergeMap(old, new) ==
    IF DOMAIN new.kv = {} THEN old
    ELSE MapOf([k \in DOMAIN old.kv \cup DOMAIN new.kv |->
                  IF k \in DOMAIN new.kv THEN new.kv[k] ELSE old.kv[k]])

\* entries of src at the positions order lists
Picked(src, order) == [k \in DOMAIN order |-> src[order[k]]]

\* the orders in which the names left in envIndexMap are appended
\* (for _, i := range envIndexMap)
EnvAppendOrders(left) == Orders(Range(left))

\* what one call may return: the appended entries come in the order the range
\* over the index map visits them
MergeOutcomes(old, new) ==
    LET e == EnvReplacePass(old.env, new.env, EnvIndexMap(new.env), 1)
        f == EnvFromReplacePass(old.envFrom, new.envFrom, EnvFromIndexMap(new.envFrom), 1)
    IN IF WritesNilMap(old.labels, new.labels)
          \/ WritesNilMap(old.annotations, new.annotations)
       THEN {[panic |-> TRUE, opt |-> old]}
       ELSE {[panic |-> FALSE,
              opt |-> [old EXCEPT
                         !.env = e.env \o Picked(new.env, pe),
                         !.envFrom = f.envFrom \o Picked(new.envFrom, pf),
                         !.labels = MergeMap(old.labels, new.labels),
                         !.annotations = MergeMap(old.annotations, new.annotations),
                         !.restartPolicy = new.restartPolicy,
                         !.resources = new.resources,
                         !.script = new.script]] :
              pe \in EnvAppendOrders(e.left), pf \in Orders(Range(f.left))}

(***************************************************************************)
(* mergeTaskOptions called on its own                                      *)
(***************************************************************************)
SomeMaps == {NilMap, MapOf(<<>>), MapOf([k |-> "v1"]), MapOf([k |-> "v2"]),
             MapOf([j |-> "v1"])}
SomeSources == {EnvFromSource("", "cm1"), EnvFromSource("p", "")}
SomeScalars == {"", "x", "y"}

MergeInputs ==
    {[old |-> [BaseOption EXCEPT !.env = a], new |-> [BaseOption EXCEPT !.env = b]] :
       a \in SeqsUpTo(EnvVars, MaxEnvLen), b \in SeqsUpTo(EnvVars, MaxEnvLen)}
    \cup
    {[old |-> [BaseOption EXCEPT !.envFrom = a], new |-> [BaseOption EXCEPT !.envFrom = b]] :
       a \in SeqsUpTo(SomeSources, MaxEnvLen), b \in SeqsUpTo(SomeSources, MaxEnvLen)}
    \cup
    {[old |-> [BaseOption EXCEPT !.labels = a], new |-> [BaseOption EXCEPT !.labels = b]] :
       a \in SomeMaps, b \in SomeMaps}
    \cup
    {[old |-> [BaseOption EXCEPT !.annotations = a],
      new |-> [BaseOption EXCEPT !.annotations = b]] : a \in SomeMaps, b \in SomeMaps}
    \cup
    {[old |-> [BaseOption EXCEPT !.restartPolicy = a, !.resources = a, !.script = a],
      new |-> [BaseOption EXCEPT !.restartPolicy = b, !.resources = b, !.script = b]] :
       a \in SomeScalars, b \in SomeScalars}

NoMergeOut == [panic |-> FALSE, opt |-> BaseOption]
MergeIdle ==
    /\ mergeIn = [old |-> BaseOption, new |-> BaseOption]
    /\ mergeOut = NoMergeOut
    /\ mergePc = "idle"

MergeInit ==
    /\ mergeIn \in MergeInputs
    /\ mergeOut = NoMergeOut
    /\ mergePc = "called"

(***************************************************************************)
(* Part II.  The admission handler.                                        *)
(***************************************************************************)
\* The Terraform object, as JSON and as the decoded struct: annotations and
\* plugins are maps (nil when absent), status is what the JSON holds of the
\* status subtree: "absent", "partial" (some fields) or "full".
Resource(ann, plugins, options, status) ==
    [annotations |-> ann, plugins |-> plugins, taskOptions |-> options, status |-> status]

\* decodeTerraform (part_001:323-330): the struct holds what the JSON held
Decode(raw) == raw

\* json.Marshal with omitempty: an empty map is left out like a nil one
OmitEmpty(m) == IF DOMAIN m.kv = {} THEN NilMap ELSE m

MarshalOption(o) ==
    [o EXCEPT !.labels = OmitEmpty(@), !.annotations = OmitEmpty(@)]

\* json.Marshal(terraform): the status struct is written with all its fields
Marshal(t) ==
    [annotations |-> OmitEmpty(t.annotations),
     plugins |-> OmitEmpty(t.plugins),
     taskOptions |-> [i \in DOMAIN t.taskOptions |-> MarshalOption(t.taskOptions[i])],
     status |-> "full"]

PatchOp(o, p) == [op |-> o, path |-> p]

\* jsonpatch.CreatePatch(objectJSON, targetJson): the operations, by subtree
DiffMap(a, b, prefix) ==
    IF a = b THEN {}
    ELSE IF a.nil THEN {PatchOp("add", prefix)}
    ELSE IF b.nil THEN {PatchOp("remove", prefix)}
    ELSE {PatchOp("add", Append(prefix, k)) : k \in DOMAIN b.kv \ DOMAIN a.kv}
         \cup {PatchOp("remove", Append(prefix, k)) : k \in DOMAIN a.kv \ DOMAIN b.kv}
         \cup {PatchOp("replace", Append(prefix, k)) :
                 k \in {x \in DOMAIN a.kv \cap DOMAIN b.kv : a.kv[x] # b.kv[x]}}

DiffOptions(a, b) ==
    {PatchOp("add", <<"spec", "taskOptions", ToString(i - 1)>>) :
       i \in {x \in DOMAIN b : x > Len(a)}}
    \cup {PatchOp("replace", <<"spec", "taskOptions", ToString(i - 1)>>) :
            i \in {x \in DOMAIN b : x <= Len(a) /\ a[x] # b[x]}}
    \cup {PatchOp("remove", <<"spec", "taskOptions", ToString(i - 1)>>) :
            i \in {x \in DOMAIN a : x > Len(b)}}

DiffStatus(a, b) ==
    IF a = b THEN {}
    ELSE IF a = "absent" THEN {PatchOp("add", <<"status">>)}
    ELSE {PatchOp("add", <<"status", "phase">>)}

CreatePatch(raw, target) ==
    DiffMap(raw.annotations, target.annotations, <<"metadata", "annotations">>)
    \cup DiffMap(raw.plugins, target.plugins, <<"spec", "plugins">>)
    \cup DiffOptions(raw.taskOptions, target.taskOptions)
    \cup DiffStatus(raw.status, target.status)

\* strings.HasPrefix(p.Path, "/status")
HasStatusPrefix(path) == Len(path) >= 1 /\ path[1] = "status"

\* the loop of part_001:290-297
RealPatch(patch) == {p \in patch : ~HasStatusPrefix(p.path)}

\* admission.AdmissionResponse
Response(allowed, patchType, present, ops, message) ==
    [allowed |-> allowed, patchType |-> patchType,
     patch |-> [present |-> present, ops |-> ops], message |-> message]

\* a mutant: no patch at all
nilPatchAbsent == Response(TRUE, "JSONPatch", FALSE, {}, FALSE)

\* nilPatch (part_001:383-385)
nilPatch == Response(TRUE, "JSONPatch", TRUE, {}, FALSE)

\* a mutant: the error response allows
ErrorResponseAllowing == Response(TRUE, "", FALSE, {}, TRUE)

\* &admission.AdmissionResponse{Result: &metav1.Status{Message: err.Error()}}
ErrorResponse == Response(FALSE, "", FALSE, {}, TRUE)

\* &admission.AdmissionResponse{Allowed: true, PatchType: &jsonPatchType, Patch: patchJSON}
PatchResponse(ops) == Response(TRUE, "JSONPatch", TRUE, ops, FALSE)

NoAnswer == [kind |-> "none", body |-> ErrorResponse]
Answer(body) == [kind |-> "response", body |-> body]
\* the handler returns without writing, or net/http recovers its panic
Unanswered(kind) == [kind |-> kind, body |-> ErrorResponse]

(***************************************************************************)
(* File names of the policy directory                                      *)
(***************************************************************************)
FileNames == {".a", "a", "a.json", "b", "b.json"}
\* the order of ioutil.ReadDir: sorted by file name
FileRank(n) ==
    CASE n = ".a" -> 1 [] n = "a" -> 2 [] n = "a.json" -> 3 [] n = "b" -> 4
      [] n = "b.json" -> 5
HasPrefixDot(n) == n = ".a"
HasSuffixJson(n) == n \in {"a.json", "b.json"}
TrimSuffixJson(n) ==
    CASE n = "a.json" -> "a" [] n = "b.json" -> "b" [] OTHER -> n

\* part_001:226-233 and part_002:173-182: which entries are policies, and
\* the plugin name of one
IsPolicyFile(v, e) ==
    /\ ~e.isDir
    /\ IF v = "v1alpha2" THEN HasSuffixJson(e.name) ELSE ~HasPrefixDot(e.name)
PluginNameOf(v, n) == IF v = "v1alpha2" THEN TrimSuffixJson(n) ELSE n

(***************************************************************************)
(* The steps of mutate's loop body (part_001:240-266, part_002:189-215)    *)
(***************************************************************************)
MapPut(m, k, x) ==
    MapOf([y \in DOMAIN m.kv \cup {k} |-> IF y = k THEN x ELSE m.kv[y]])

\* doSkip: the annotations map is made when nil
MakeAnnotations(t) == [t EXCEPT !.annotations = IF @.nil THEN MapOf(<<>>) ELSE @]
doSkip(t, skipKey) == skipKey \in DOMAIN t.annotations.kv

\* a mutant: the map is made anew and holds the one entry
updatePluginsAnew(v, t, pluginName, plugin) ==
    [t EXCEPT !.plugins = MapOf([k \in {pluginName} |-> plugin])]

\* updatePlugins of v1alpha2 returns before the write when the key exists;
\* updatePlugins of v1beta1 writes always
updatePlugins(v, t, pluginName, plugin) ==
    IF v = "v1alpha2" /\ pluginName \in DOMAIN t.plugins.kv
    THEN [t EXCEPT !.plugins = MapOf(@.kv)]
    ELSE [t EXCEPT !.plugins = MapPut(@, pluginName, plugin)]

\* a mutant: the length of the for list is not looked at
findTaskOptionIndexAnyLength(t, pluginName) ==
    LET hits == {i \in DOMAIN t.taskOptions :
                   Len(t.taskOptions[i].for) >= 1 /\ t.taskOptions[i].for[1] = pluginName}
    IN IF hits = {} THEN 0 ELSE CHOOSE i \in hits : \A j \in hits : i <= j

\* findTaskOptionIndex: the first option whose for is exactly [pluginName],
\* 0 when there is none (the code's -1)
findTaskOptionIndex(t, pluginName) ==
    LET hits == {i \in DOMAIN t.taskOptions : t.taskOptions[i].for = <<pluginName>>}
    IN IF hits = {} THEN 0 ELSE CHOOSE i \in hits : \A j \in hits : i <= j

\* a mutant: a for list the template carries is kept
OwnedByUnlessNamed(o, pluginName) ==
    [o EXCEPT !.for = IF @ = <<>> THEN <<pluginName>> ELSE @,
              !.restartPolicy = IF @ = "" THEN "Always" ELSE @]

\* a mutant: an unset restart policy stays unset
OwnedByNoDefault(o, pluginName) == [o EXCEPT !.for = <<pluginName>>]

\* part_001:262-266
OwnedBy(o, pluginName) ==
    [o EXCEPT !.for = <<pluginName>>,
              !.restartPolicy = IF @ = "" THEN "Always" ELSE @]

\* one non-skipped policy applied to t: what the iteration may leave
ApplyOutcomes(v, t, pluginName, opt) ==
    LET t1 == updatePlugins(v, MakeAnnotations(t), pluginName, opt.pluginConfig)
        i == findTaskOptionIndex(t1, pluginName)
    IN IF i > 0
       THEN {[panic |-> m.panic,
              tf |-> IF m.panic THEN t1
                     ELSE [t1 EXCEPT !.taskOptions[i] = OwnedBy(m.opt, pluginName)]] :
               m \in MergeOutcomes(t1.taskOptions[i], opt.taskOption)}
       ELSE {[panic |-> FALSE,
              tf |-> [t1 EXCEPT !.taskOptions = Append(@, OwnedBy(opt.taskOption, pluginName))]]}

\* what the history keeps of the latest policy that was applied: its plugin
\* name, the policy, and the resource it was applied to
NoStep == [kind |-> "none", name |-> "", opt |-> [skipAnnotation |-> "", pluginConfig |-> "",
                                                 taskOption |-> BaseOption],
           before |-> Resource(NilMap, NilMap, <<>>, "absent")]
AppliedStep(pluginName, opt, t) ==
    [kind |-> "applied", name |-> pluginName, opt |-> opt, before |-> t]

FreshHandlerHist ==
    [applied |-> {}, skipped |-> {}, exit |-> "none", diff |-> {}, round1 |-> "none",
     last |-> NoStep]

(***************************************************************************)
(* admissionHandler and mutate of the directory-based variants             *)
(* (part_001:213-313, 333-380; part_002:160-262, 282-329)                  *)
(***************************************************************************)
DirVariant == variant \in {"v1alpha2", "v1beta1"}

Done(answer, exit) ==
    /\ hpc' = "done"
    /\ resp' = answer
    /\ mh' = [mh EXCEPT !.exit = exit]

\* admissionHandler up to the call, and mutate up to its loop
Receive ==
    /\ DirVariant
    /\ hpc = "idle"
    /\ IF req.fault = "contentType" THEN Done(Unanswered("noResponse"), "contentType")
       ELSE IF req.fault = "body" THEN Done(Unanswered("httpError"), "body")
       ELSE IF req.fault = "notReview" THEN Done(Unanswered("noResponse"), "notReview")
       ELSE IF req.fault = "resource" THEN Done(Answer(nilPatch), "mismatch")
       ELSE IF req.fault = "decode" THEN Done(Answer(ErrorResponse), "decodeError")
       ELSE IF ~dir.listOk THEN Done(Unanswered("panic"), "lsPanic")
       ELSE /\ hpc' = "loop"
            /\ UNCHANGED <<resp, mh>>
    /\ tf' = IF req.fault \in {"none", "marshal", "diff", "encode"}
             THEN Decode(req.raw) ELSE tf
    /\ idx' = 1
    /\ UNCHANGED <<certVars, mergeVars, variant, req, dir, mutfile, todo>>

\* a mutant: only a read failure is an error
newPluginOptionUnreadable(e) == e.state = "unreadable"

\* newPluginOption returns an error: ReadFile or Unmarshal failed
newPluginOptionError(e) == e.state # "ok"

\* one entry of the listing
ApplyPolicy ==
    /\ DirVariant
    /\ hpc = "loop"
    /\ idx <= Len(dir.files)
    /\ LET e == dir.files[idx]
           pluginName == PluginNameOf(variant, e.name)
       IN IF ~IsPolicyFile(variant, e)
          THEN /\ idx' = idx + 1
               /\ UNCHANGED <<tf, hpc, resp, mh>>
          ELSE IF newPluginOptionError(e)
          THEN /\ Done(Answer(nilPatch), "badPolicy")
               /\ UNCHANGED <<tf, idx>>
          ELSE IF doSkip(MakeAnnotations(tf), e.opt.skipAnnotation)
          THEN /\ tf' = MakeAnnotations(tf)
               /\ idx' = idx + 1
               /\ mh' = [mh EXCEPT !.skipped = @ \cup {pluginName}]
               /\ UNCHANGED <<hpc, resp>>
          ELSE \E o \in ApplyOutcomes(variant, tf, pluginName, e.opt) :
                 IF o.panic
                 THEN /\ Done(Unanswered("panic"), "mergePanic")
                      /\ UNCHANGED <<tf, idx>>
                 ELSE /\ tf' = o.tf
                      /\ idx' = idx + 1
                      /\ mh' = [mh EXCEPT !.applied = @ \cup {pluginName},
                                           !.last = AppliedStep(pluginName, e.opt, tf)]
                      /\ UNCHANGED <<hpc, resp>>
    /\ UNCHANGED <<certVars, mergeVars, variant, req, dir, mutfile, todo>>

\* part_001:272-312
Finish ==
    /\ DirVariant
    /\ hpc = "loop"
    /\ idx > Len(dir.files)
    /\ LET patch == CreatePatch(req.raw, Marshal(tf))
           realPatch == RealPatch(patch)
       IN /\ hpc' = "done"
          /\ IF req.fault = "marshal"
             THEN resp' = Answer(ErrorResponse) /\ mh' = [mh EXCEPT !.exit = "marshalError"]
             ELSE IF req.fault = "diff"
             THEN resp' = Answer(ErrorResponse) /\ mh' = [mh EXCEPT !.exit = "diffError"]
             ELSE IF realPatch = {}
             THEN /\ resp' = Answer(nilPatch)
                  /\ mh' = [mh EXCEPT !.exit = "noChange", !.diff = patch]
             ELSE IF req.fault = "encode"
             THEN /\ resp' = Answer(ErrorResponse)
                  /\ mh' = [mh EXCEPT !.exit = "encodeError", !.diff = patch]
             ELSE /\ resp' = Answer(PatchResponse(realPatch))
                  /\ mh' = [mh EXCEPT !.exit = "patched", !.diff = patch]
    /\ UNCHANGED <<certVars, mergeVars, variant, req, dir, mutfile, tf, idx, todo>>

\* the API server applies the patch it got and, on a later update of the
\* object, sends the result through the same policies: the patch never
\* touches the status subtree, so the object keeps the status it had
Patched(raw, t) == [Marshal(t) EXCEPT !.status = raw.status]

Resubmit ==
    /\ hpc = "done"
    /\ req.round = 1
    /\ req.fault = "none"
    /\ mh.exit \in {"patched", "noChange"}
    /\ req' = [req EXCEPT !.round = 2, !.raw = Patched(req.raw, tf)]
    /\ hpc' = "idle"
    /\ resp' = NoAnswer
    /\ mh' = [FreshHandlerHist EXCEPT !.round1 = mh.exit]
    /\ UNCHANGED <<certVars, mergeVars, variant, dir, mutfile, tf, idx, todo>>

(***************************************************************************)
(* mutate of the single-file variant (webserver.go:103-253)                *)
(***************************************************************************)
FirstOccurrence(env, j) == \A k \in 1..(j - 1) : env[k].name # env[j].name

\* webserver.go:168-177: the last option whose for is exactly [name]
lastTaskOptionIndex(t, name) ==
    LET hits == {i \in DOMAIN t.taskOptions : t.taskOptions[i].for = <<name>>}
    IN IF hits = {} THEN 0 ELSE CHOOSE i \in hits : \A j \in hits : i >= j

\* the envs made of the keys left in ConfigMapKeyMap, in the order the range
\* over the map visits them
EnvsOf(cm, keys) ==
    {[k \in DOMAIN p |-> EnvVar(p[k], cm[p[k]])] : p \in Orders(keys)}

\* webserver.go:145-220 for one entry of pluginMutations
SingleOutcomes(t, name, mutation) ==
    LET cm == mutation.configMapKeyMap
        t1 == [t EXCEPT !.plugins = MapPut(@, name, mutation.image)]
        i == lastTaskOptionIndex(t1, name)
        env == IF i > 0 THEN t1.taskOptions[i].env ELSE <<>>
        replaced == [j \in DOMAIN env |->
                       IF env[j].name \in DOMAIN cm /\ FirstOccurrence(env, j)
                       THEN EnvVar(env[j].name, cm[env[j].name]) ELSE env[j]]
    IN IF i > 0
       THEN {[t1 EXCEPT !.taskOptions[i].env = replaced \o envs,
                        !.taskOptions[i].restartPolicy = "Always"] :
               envs \in EnvsOf(cm, DOMAIN cm \ EnvNamesOf(env))}
       ELSE {[t1 EXCEPT !.taskOptions =
                Append(@, [BaseOption EXCEPT !.for = <<name>>, !.env = envs,
                                             !.restartPolicy = "Always"])] :
               envs \in EnvsOf(cm, DOMAIN cm)}

\* admissionHandler up to the call, and mutate up to its loop
SingleReceive ==
    /\ variant = "single"
    /\ hpc = "idle"
    /\ IF req.fault = "contentType" THEN Done(Unanswered("noResponse"), "contentType")
       ELSE IF req.fault = "body" THEN Done(Unanswered("httpError"), "body")
       ELSE IF req.fault = "notReview" THEN Done(Unanswered("noResponse"), "notReview")
       ELSE IF ~mutfile.readOk \/ ~mutfile.parseOk
         THEN Done(Answer(nilPatch), "badPolicy")
       \* mutate returns nil and admissionHandler dereferences it
       ELSE IF req.fault = "resource" THEN Done(Unanswered("panic"), "nilResponse")
       ELSE IF req.fault = "decode" THEN Done(Answer(ErrorResponse), "decodeError")
       ELSE /\ hpc' = "loop"
            /\ UNCHANGED <<resp, mh>>
    /\ tf' = IF req.fault \in {"none", "marshal", "diff", "encode"}
             THEN Decode(req.raw) ELSE tf
    /\ todo' = DOMAIN mutfile.mutations
    /\ UNCHANGED <<certVars, mergeVars, variant, req, dir, mutfile, idx>>

\* one iteration of the range over pluginMutations
SingleApply ==
    /\ variant = "single"
    /\ hpc = "loop"
    /\ \E name \in todo :
         LET mutation == mutfile.mutations[name]
         IN IF ~tf.annotations.nil /\ mutation.escapeKey \in DOMAIN tf.annotations.kv
            THEN /\ hpc' = "done"
                 /\ resp' = Answer(nilPatch)
                 /\ mh' = [mh EXCEPT !.exit = "escape", !.skipped = @ \cup {name}]
                 /\ UNCHANGED <<tf, todo>>
            ELSE \E t \in SingleOutcomes(MakeAnnotations(tf), name, mutation) :
                   /\ tf' = t
                   /\ todo' = todo \ {name}
                   /\ mh' = [mh EXCEPT !.applied = @ \cup {name}]
                   /\ UNCHANGED <<hpc, resp>>
    /\ UNCHANGED <<certVars, mergeVars, variant, req, dir, mutfile, idx>>

\* webserver.go:223-252
SingleFinish ==
    /\ variant = "single"
    /\ hpc = "loop"
    /\ todo = {}
    /\ LET patch == CreatePatch(req.raw, Marshal(tf))
       IN /\ hpc' = "done"
          /\ IF req.fault = "marshal"
             THEN resp' = Answer(ErrorResponse) /\ mh' = [mh EXCEPT !.exit = "marshalError"]
             ELSE IF req.fault = "diff"
             THEN resp' = Answer(ErrorResponse) /\ mh' = [mh EXCEPT !.exit = "diffError"]
             ELSE IF req.fault = "encode"
             THEN /\ resp' = Answer(ErrorResponse)
                  /\ mh' = [mh EXCEPT !.exit = "encodeError", !.diff = patch]
             ELSE /\ resp' = Answer(PatchResponse(patch))
                  /\ mh' = [mh EXCEPT !.exit = "patched", !.diff = patch]
    /\ UNCHANGED <<certVars, mergeVars, variant, req, dir, mutfile, tf, idx, todo>>

(***************************************************************************)
(* Requests, policy directories and mutation files                         *)
(***************************************************************************)
Variants == {"v1alpha2", "v1beta1", "single"}
Faults == {"none", "contentType", "body", "notReview", "resource", "decode",
           "marshal", "diff", "encode"}

OptionA == [BaseOption EXCEPT !.for = <<"a">>, !.env = <<EnvVar("A", "0")>>,
                              !.restartPolicy = "Always"]
RawOptionLists ==
    {<<>>,
     <<OptionA>>,
     <<[OptionA EXCEPT !.for = <<"a", "b">>]>>,
     <<[OptionA EXCEPT !.labels = MapOf([k |-> "v2"]),
                       !.annotations = MapOf([k |-> "v2"]),
                       !.env = <<EnvVar("B", "0"), EnvVar("B", "0")>>]>>,
     <<OptionA, [OptionA EXCEPT !.env = <<EnvVar("B", "0")>>]>>,
     <<[OptionA EXCEPT !.labels = MapOf([k |-> "v2"]), !.env = <<>>]>>}

RawAnnotations == {NilMap, MapOf([skipA |-> ""]), MapOf([skipB |-> "true"]),
                   MapOf([other |-> ""])}
RawPlugins == {NilMap, MapOf([a |-> "X"]), MapOf([a |-> "Z"])}
RawStatuses == {"absent", "partial", "full"}

SomeRaws ==
    {Resource(an, pl, os, st) :
       an \in RawAnnotations, pl \in RawPlugins, os \in RawOptionLists, st \in RawStatuses}
FaultRaws == {r \in SomeRaws : r.plugins.nil /\ Len(r.taskOptions) <= 1}
EmptyResource == Resource(NilMap, NilMap, <<>>, "absent")

\* PluginOption{SkipAnnotation, PluginConfig, TaskOption} (part_001:46-52)
PluginOption(skip, plugin, template) ==
    [skipAnnotation |-> skip, pluginConfig |-> plugin, taskOption |-> template]

TemplatesA ==
    {[BaseOption EXCEPT !.env = <<EnvVar("A", "1")>>],
     [BaseOption EXCEPT !.env = <<EnvVar("A", "1"), EnvVar("A", "0")>>],
     [BaseOption EXCEPT !.env = <<EnvVar("A", "1"), EnvVar("B", "1")>>,
                        !.labels = MapOf([k |-> "v1"]), !.for = <<"b">>,
                        !.restartPolicy = "Never"],
     [BaseOption EXCEPT !.envFrom = <<EnvFromSource("", "cm1")>>,
                        !.annotations = MapOf([k |-> "v1"])]}
TemplateB == [BaseOption EXCEPT !.env = <<EnvVar("B", "1")>>]

NoOption == PluginOption("", "", BaseOption)
DirEntry(n, isDir, state, opt) ==
    [name |-> n, isDir |-> isDir, state |-> state, opt |-> opt]

\* the entries a listing may hold for one plugin
EntriesA(n) ==
    {DirEntry(n, FALSE, "ok", PluginOption("skipA", "X", t)) : t \in TemplatesA}
    \cup {DirEntry(n, FALSE, "unparsable", NoOption), DirEntry(n, TRUE, "ok", NoOption)}
EntriesB(n) ==
    {DirEntry(n, FALSE, "ok", PluginOption("skipB", "Y", TemplateB)),
     DirEntry(n, FALSE, "unreadable", NoOption)}

\* the file a policy for plugin p is kept in, and a file that is none
PolicyFileName(v, p) ==
    IF v = "v1alpha2" THEN (IF p = "a" THEN "a.json" ELSE "b.json") ELSE p
OtherFileName(v) == IF v = "v1alpha2" THEN "a" ELSE ".a"

IsSorted(files) ==
    \A i, j \in DOMAIN files : i < j => FileRank(files[i].name) < FileRank(files[j].name)

Listings(v) ==
    {other \o a \o b :
       other \in {<<>>, <<DirEntry(OtherFileName(v), FALSE, "ok",
                                   PluginOption("skipA", "Z", TemplateB))>>},
       a \in {<<>>} \cup {<<e>> : e \in EntriesA(PolicyFileName(v, "a"))},
       b \in {<<>>} \cup {<<e>> : e \in EntriesB(PolicyFileName(v, "b"))}}

SomeDirs(v) ==
    {[listOk |-> TRUE, files |-> l] : l \in {x \in Listings(v) : IsSorted(x)}}
    \cup {[listOk |-> FALSE, files |-> <<>>]}
NoDir == [listOk |-> TRUE, files |-> <<>>]

\* pluginMutation{Image, EscapeKey, ConfigMapKeyMap} (webserver.go:87-92)
PluginMutation(image, escapeKey, cm) ==
    [image |-> image, escapeKey |-> escapeKey, configMapKeyMap |-> cm]
MutationFile(readOk, parseOk, mutations) ==
    [readOk |-> readOk, parseOk |-> parseOk, mutations |-> mutations]
NoMutations == [n \in {} |-> PluginMutation("", "", <<>>)]
MutationA(cm) == PluginMutation("X", "skipA", cm)
MutationB == PluginMutation("Y", "skipB", [B |-> "1"])
SomeMutationFiles ==
    {MutationFile(FALSE, TRUE, NoMutations), MutationFile(TRUE, FALSE, NoMutations),
     MutationFile(TRUE, TRUE, NoMutations)}
    \cup {MutationFile(TRUE, TRUE, [a |-> MutationA(cm)]) :
            cm \in {[A |-> "1"], [A |-> "1", B |-> "1"]}}
    \cup {MutationFile(TRUE, TRUE, [a |-> MutationA(cm), b |-> MutationB]) :
            cm \in {[A |-> "1"], [A |-> "1", B |-> "1"]}}
NoMutationFile == MutationFile(TRUE, TRUE, NoMutations)

Request(fault, raw, round) == [fault |-> fault, raw |-> raw, round |-> round]

\* no request is being handled
HandlerIdle ==
    /\ variant = "v1beta1"
    /\ req = Request("none", EmptyResource, 1)
    /\ dir = NoDir
    /\ mutfile = NoMutationFile
    /\ tf = EmptyResource
    /\ idx = 1
    /\ todo = {}
    /\ hpc = "off"
    /\ resp = NoAnswer
    /\ mh = FreshHandlerHist

MutIdle == HandlerIdle /\ MergeIdle

\* a request arrives
HandlerInit ==
    /\ variant \in Variants
    /\ \E fault \in Faults :
         \E raw \in (IF fault = "none" THEN SomeRaws ELSE FaultRaws) :
           req = Request(fault, raw, 1)
    /\ dir \in (IF variant = "single" THEN {NoDir} ELSE SomeDirs(variant))
    /\ mutfile \in (IF variant = "single" THEN SomeMutationFiles ELSE {NoMutationFile})
    /\ tf = EmptyResource
    /\ idx = 1
    /\ todo = {}
    /\ hpc = "idle"
    /\ resp = NoAnswer
    /\ mh = FreshHandlerHist

\* mergeTaskOptions called on mergeIn
MergeCall ==
    /\ mergePc = "called"
    /\ mergeOut' \in MergeOutcomes(mergeIn.old, mergeIn.new)
    /\ mergePc' = "returned"
    /\ UNCHANGED <<certVars, handlerVars, mergeIn>>


(***************************************************************************)
(* Part I.  Initial states: the process has just started (main.go:404-421),*)
(* the cluster may hold a secret and a registration of an earlier run; a   *)
(* registration found without a secret carries the CA of a lost bundle.    *)
(***************************************************************************)
CertInit ==
    /\ now = 0
    /\ \E kind \in {"absent", "fresh", "expiring"} :
         /\ secret = IF kind = "absent" THEN NoSecret
                     ELSE [exists |-> TRUE, data |-> NewBundleData(1)]
         /\ nGen = IF kind = "absent" THEN 0 ELSE 1
         /\ issued = [g \in 1..MaxGen |->
                        IF g = 1 /\ kind = "fresh"
                          THEN [signer |-> 1, notAfter |-> CertLifetimeDays]
                        ELSE IF g = 1 /\ kind = "expiring"
                          THEN [signer |-> 1, notAfter |-> ValidityWindowDays - 1]
                        ELSE Unissued]
    /\ mounted \in {NoData, secret.data}
    /\ \E e \in BOOLEAN :
         /\ wh = IF ~e THEN NoWebhook
                 ELSE [exists |-> TRUE,
                       caBundle |-> IF ~secret.exists THEN StaleCA ELSE PemBlob(1)]
         /\ hist = FreshHist(e)
    /\ envWrites = 0
    /\ lpc = "getSecret"
    /\ mpc = "recv"
    /\ started = FALSE
    /\ recheckAfter = ShortInterval
    /\ secretL = NoData
    /\ filesL = NoData
    /\ cyc = FreshCycle

\* log.Panic in the goroutine: the process ends
Panics(cause, condition) ==
    /\ lpc' = "crashed"
    /\ mpc' = "crashed"
    /\ hist' = [hist EXCEPT !.panicCause = cause]
    /\ cyc' = [cyc EXCEPT !.met = IF condition = "none" THEN @ ELSE condition]

(***************************************************************************)
(* Manager.GetOrCreateSecret (main.go:84-117)                              *)
(***************************************************************************)
GetSecretFound ==
    /\ lpc = "getSecret"
    /\ secret.exists
    /\ secretL' = secret.data
    /\ lpc' = "statFiles"
    /\ UNCHANGED <<secret, mounted, issued, nGen, now, wh, envWrites, mpc, started,
                   recheckAfter, filesL, cyc, hist, mutVars>>

GetSecretCreate ==
    /\ lpc = "getSecret"
    /\ ~secret.exists
    /\ nGen < MaxGen
    /\ nGen' = nGen + 1
    /\ issued' = [issued EXCEPT ![nGen + 1] =
                    [signer |-> nGen + 1, notAfter |-> now + CertLifetimeDays]]
    /\ secret' = [exists |-> TRUE, data |-> NewBundleData(nGen + 1)]
    /\ secretL' = NewBundleData(nGen + 1)
    /\ cyc' = [cyc EXCEPT !.createdSecret = TRUE]
    /\ lpc' = "statFiles"
    /\ UNCHANGED <<mounted, now, wh, envWrites, mpc, started, recheckAfter, filesL,
                   hist, mutVars>>

\* the Get fails otherwise than not-found, or the Create fails
GetSecretError ==
    /\ lpc = "getSecret"
    /\ Panics("secretApi", "none")
    /\ UNCHANGED <<secret, mounted, issued, nGen, now, wh, envWrites, started,
                   recheckAfter, secretL, filesL, mutVars>>

(***************************************************************************)
(* certMgmt, main.go:305-314: the four stats                               *)
(***************************************************************************)
StatFiles ==
    /\ lpc = "statFiles"
    /\ IF \E f \in Fields : ~fileExistAndIsNotEmpty(mounted, f)
       THEN /\ recheckAfter' = ShortInterval
            /\ cyc' = [cyc EXCEPT !.outcome = "waiting", !.met = "missing",
                                  !.missing = \E f \in Fields : mounted[f] = MissingBlob]
            /\ lpc' = "sleep"
       ELSE /\ lpc' = "readFiles"
            /\ cyc' = [cyc EXCEPT !.missing = \E f \in Fields : mounted[f] = MissingBlob]
            /\ UNCHANGED recheckAfter
    /\ UNCHANGED <<secret, mounted, issued, nGen, now, wh, envWrites, mpc, started,
                   secretL, filesL, hist, mutVars>>

\* what the history records of a cycle that read the four files
ObservedAllGood(sd, files, t, reg) ==
    /\ \A f \in Fields : fileExistAndIsNotEmpty(files, f) /\ isX509Format(files[f])
    /\ \A f \in Fields : sd[f] = files[f]
    /\ isCertValid(files["ca.crt"], files["tls.crt"], t, reg)

ConditionOf(outcome) ==
    CASE outcome = "badformat" -> "badformat"
      [] outcome = "drifted" -> "drift"
      [] outcome = "rotating" -> "expiring"
      [] OTHER -> "none"

(***************************************************************************)
(* certMgmt, main.go:316-390: the four reads, the format checks, the       *)
(* comparison with the secret and the validity check                       *)
(***************************************************************************)
ReadAndClassify ==
    /\ lpc = "readFiles"
    /\ \A f \in Fields : mounted[f].kind # "missing"
    /\ filesL' = mounted
    /\ LET o == Classify(secretL, mounted, now, issued) IN
         /\ cyc' = [cyc EXCEPT !.read = TRUE, !.outcome = o, !.met = ConditionOf(o),
                               !.at = now]
         /\ recheckAfter' = RecheckAfterOf(o, recheckAfter)
         /\ lpc' = CASE o = "healthy" -> "whGet"
                     [] o = "rotating" -> "rotate"
                     [] OTHER -> "sleep"
    /\ hist' = [hist EXCEPT !.observedValid =
                  @ \/ ObservedAllGood(secretL, mounted, now, issued)]
    /\ UNCHANGED <<secret, mounted, issued, nGen, now, wh, envWrites, mpc, started,
                   secretL, mutVars>>

\* a file was removed after its stat: ioutil.ReadFile fails, log.Panic
ReadFilesError ==
    /\ lpc = "readFiles"
    /\ \E f \in Fields : mounted[f].kind = "missing"
    /\ Panics("readFile", "missing")
    /\ UNCHANGED <<secret, mounted, issued, nGen, now, wh, envWrites, started,
                   recheckAfter, secretL, filesL, mutVars>>

(***************************************************************************)
(* Manager.UpdateSecret (main.go:119-142), called at main.go:384           *)
(***************************************************************************)
Rotate ==
    /\ lpc = "rotate"
    /\ secret.exists
    /\ nGen < MaxGen
    /\ nGen' = nGen + 1
    /\ issued' = [issued EXCEPT ![nGen + 1] =
                    [signer |-> filesL["ca.crt"].gen, notAfter |-> now + CertLifetimeDays]]
    /\ secret' = [secret EXCEPT !.data = UpdatedTLSData(filesL, nGen + 1)]
    /\ recheckAfter' = ShortInterval
    /\ cyc' = [cyc EXCEPT !.updatedSecret = TRUE]
    /\ lpc' = "sleep"
    /\ UNCHANGED <<mounted, now, wh, envWrites, mpc, started, secretL, filesL, hist,
                   mutVars>>

\* UpdateTLS, the Get or the Update fails
RotateError ==
    /\ lpc = "rotate"
    /\ Panics("secretUpdate", "expiring")
    /\ UNCHANGED <<secret, mounted, issued, nGen, now, wh, envWrites, started,
                   recheckAfter, secretL, filesL, mutVars>>

(***************************************************************************)
(* Manager.createOrUpdateMutatingWebhookConfiguration (main.go:230-287)    *)
(***************************************************************************)
\* a mutant: the lookup result is ignored
LookupNeverFinds == FALSE

\* a mutant: the lookup never reports not-found
LookupAlwaysFinds == TRUE

\* a mutant: a registration with another CA bundle counts as not found
LookupFoundIfCurrent == wh.exists /\ wh.caBundle = mounted["ca.crt"]

\* err == nil at main.go:234
LookupFound == wh.exists

WhGet ==
    /\ lpc = "whGet"
    /\ cyc' = [cyc EXCEPT !.lookup = TRUE]
    /\ lpc' = IF LookupFound THEN "ready" ELSE "whCreate"
    /\ UNCHANGED <<secret, mounted, issued, nGen, now, wh, envWrites, mpc, started,
                   recheckAfter, secretL, filesL, hist, mutVars>>

\* the lookup fails otherwise than not-found: log.Panic (main.go:235-237)
WhGetError ==
    /\ lpc = "whGet"
    /\ Panics("whLookup", "lookupError")
    /\ UNCHANGED <<secret, mounted, issued, nGen, now, wh, envWrites, started,
                   recheckAfter, secretL, filesL, mutVars>>

\* Manager.caBundle (main.go:289-299) and the Create (main.go:280)
WhCreate ==
    /\ lpc = "whCreate"
    /\ fileExistAndIsNotEmpty(mounted, "ca.crt")
    /\ wh' = [exists |-> TRUE, caBundle |-> mounted["ca.crt"]]
    /\ cyc' = [cyc EXCEPT !.whCreated = TRUE]
    /\ hist' = [hist EXCEPT !.nCreate = @ + 1]
    /\ lpc' = "ready"
    /\ UNCHANGED <<secret, mounted, issued, nGen, now, envWrites, mpc, started,
                   recheckAfter, secretL, filesL, mutVars>>

\* caBundle or the Create fails: log.Panic (main.go:241-243, 281-283)
WhCreateError ==
    /\ lpc = "whCreate"
    /\ Panics("whCreate", "none")
    /\ UNCHANGED <<secret, mounted, issued, nGen, now, wh, envWrites, started,
                   recheckAfter, secretL, filesL, mutVars>>

(***************************************************************************)
(* certMgmt, main.go:378-381: the one-shot readiness signal                *)
(***************************************************************************)
\* a mutant: the signal is never sent
ReadyGuardNever == FALSE

\* a mutant: the guard is dropped
ReadyGuardDropped == TRUE

\* !m.started
ReadyGuard == ~started

Ready ==
    /\ lpc = "ready"
    /\ lpc' = IF ReadyGuard THEN "send" ELSE "sleep"
    /\ UNCHANGED <<secret, mounted, issued, nGen, now, wh, envWrites, mpc, started,
                   recheckAfter, secretL, filesL, cyc, hist, mutVars>>

\* m.isReadyCh <- true meets <-mgr.isReadyCh of main (main.go:379, 423); the
\* channel is unbuffered
SendReady ==
    /\ lpc = "send"
    /\ mpc = "recv"
    /\ mpc' = "run"
    /\ started' = TRUE
    /\ cyc' = [cyc EXCEPT !.sent = TRUE]
    /\ hist' = [hist EXCEPT !.nSent = @ + 1, !.sentAtHealthy = hist.healthyDone]
    /\ lpc' = "sleep"
    /\ UNCHANGED <<secret, mounted, issued, nGen, now, wh, envWrites, recheckAfter,
                   secretL, filesL, mutVars>>

\* time.Sleep(recheckAfter) and the next iteration
Sleep ==
    /\ lpc = "sleep"
    /\ lpc' = "getSecret"
    /\ hist' = [hist EXCEPT !.healthyDone =
                  IF cyc.outcome = "healthy" THEN Min(@ + 1, MaxHealthy) ELSE @]
    /\ cyc' = FreshCycle
    /\ secretL' = NoData
    /\ filesL' = NoData
    /\ UNCHANGED <<secret, mounted, issued, nGen, now, wh, envWrites, mpc, started,
                   recheckAfter, mutVars>>

(***************************************************************************)
(* main (main.go:423-424) and webserver.Run                                *)
(***************************************************************************)
MainRun ==
    /\ mpc = "run"
    /\ mpc' = "serving"
    /\ UNCHANGED <<secret, mounted, issued, nGen, now, wh, envWrites, lpc, started,
                   recheckAfter, secretL, filesL, cyc, hist, mutVars>>

\* http.ListenAndServeTLS returns: log.Fatal ends the process
ListenFatal ==
    /\ mpc = "serving"
    /\ lpc # "crashed"
    /\ mpc' = "exited"
    /\ lpc' = "exited"
    /\ UNCHANGED <<secret, mounted, issued, nGen, now, wh, envWrites, started,
                   recheckAfter, secretL, filesL, cyc, hist, mutVars>>

(***************************************************************************)
(* The environment: the kubelet projects the secret into the mounted       *)
(* directory, something may change single files, time passes.              *)
(***************************************************************************)
KubeletSync ==
    /\ secret.exists
    /\ mounted # secret.data
    /\ mounted' = secret.data
    /\ UNCHANGED <<secret, issued, nGen, now, wh, envWrites, lpc, mpc, started,
                   recheckAfter, secretL, filesL, cyc, hist, mutVars>>

EnvWriteFile ==
    /\ envWrites < MaxEnvWrites
    /\ \E f \in Fields :
         \E b \in {MissingBlob, GarbageBlob} \cup {PemBlob(g) : g \in 1..nGen} :
           /\ mounted[f] # b
           /\ mounted' = [mounted EXCEPT ![f] = b]
    /\ envWrites' = envWrites + 1
    /\ UNCHANGED <<secret, issued, nGen, now, wh, lpc, mpc, started, recheckAfter,
                   secretL, filesL, cyc, hist, mutVars>>

Tick ==
    /\ now < MaxNow
    /\ now' = now + 1
    /\ UNCHANGED <<secret, mounted, issued, nGen, wh, envWrites, lpc, mpc, started,
                   recheckAfter, secretL, filesL, cyc, hist, mutVars>>

Init == CertInit /\ MutIdle

Next ==
    \/ GetSecretFound \/ GetSecretCreate \/ GetSecretError
    \/ StatFiles \/ ReadAndClassify \/ ReadFilesError
    \/ Rotate \/ RotateError
    \/ WhGet \/ WhGetError \/ WhCreate \/ WhCreateError
    \/ Ready \/ SendReady \/ Sleep
    \/ MainRun \/ ListenFatal
    \/ KubeletSync \/ EnvWriteFile \/ Tick

Spec == Init /\ [][Next]_vars

(***************************************************************************)
(* The admission handler is served once the listener runs: the lifecycle   *)
(* stands in the state after its first healthy cycle, sleeping.            *)
(***************************************************************************)
CertServing ==
    /\ now = 0
    /\ secret = [exists |-> TRUE, data |-> NewBundleData(1)]
    /\ nGen = 1
    /\ issued = [g \in 1..MaxGen |->
                   IF g = 1 THEN [signer |-> 1, notAfter |-> CertLifetimeDays]
                   ELSE Unissued]
    /\ mounted = NewBundleData(1)
    /\ wh = [exists |-> TRUE, caBundle |-> PemBlob(1)]
    /\ hist = [FreshHist(FALSE) EXCEPT !.nSent = 1, !.nCreate = 1, !.observedValid = TRUE]
    /\ envWrites = 0
    /\ lpc = "sleep"
    /\ mpc = "serving"
    /\ started = TRUE
    /\ recheckAfter = LongInterval
    /\ secretL = NewBundleData(1)
    /\ filesL = NewBundleData(1)
    /\ cyc = [FreshCycle EXCEPT !.read = TRUE, !.outcome = "healthy", !.lookup = TRUE,
                                !.whCreated = TRUE, !.sent = TRUE]

MutateInit == CertServing /\ HandlerInit /\ MergeIdle

MutateNext ==
    \/ Receive \/ ApplyPolicy \/ Finish
    \/ SingleReceive \/ SingleApply \/ SingleFinish
    \/ Resubmit

SpecMutate == MutateInit /\ [][MutateNext]_vars

MergeSpecInit == CertServing /\ HandlerIdle /\ MergeInit

SpecMerge == MergeSpecInit /\ [][MergeCall]_vars

(***************************************************************************)
(* Properties of the certificate lifecycle.                                *)
(***************************************************************************)

\* C1: the readiness signal is sent at most once, it is sent in the first
\* cycle that ends healthy, and no later healthy cycle sends or tries to send
\* again.
C1_ReadinessSentOnce ==
    /\ hist.nSent <= 1
    /\ (lpc = "send" => hist.nSent = 0 /\ cyc.outcome = "healthy")
    /\ (cyc.sent => cyc.outcome = "healthy")
    /\ (hist.healthyDone >= 1 => hist.nSent = 1 /\ hist.sentAtHealthy = 0)

\* a further healthy cycle is ending after the signal was sent in an earlier one
C1_Witness ==
    /\ lpc = "sleep"
    /\ cyc.outcome = "healthy"
    /\ ~cyc.sent
    /\ hist.healthyDone >= 1
    /\ hist.nSent = 1

\* C2: webserver.Run is entered only after some cycle has seen the four files
\* present, well-formed, equal to the secret's four fields and the leaf valid.
C2_ListenerAfterValidCycle ==
    mpc \in {"run", "serving"} => hist.observedValid

C2_Witness ==
    /\ mpc = "serving"
    /\ hist.observedValid
    /\ lpc = "sleep"

\* the cycle has read the four files and one of them differs from the secret
DriftObserved == cyc.read /\ \E f \in Fields : filesL[f] # secretL[f]

\* C3: a cycle whose mounted bytes differ from the secret in some field
\* updates no secret, looks up and creates no registration, sends no
\* readiness signal, and sleeps the short interval.
C3_DriftIsNoOp ==
    DriftObserved =>
        /\ ~cyc.updatedSecret
        /\ ~cyc.lookup
        /\ ~cyc.whCreated
        /\ ~cyc.sent
        /\ hist.nUpdate = 0
        /\ lpc \in {"sleep", "exited"}
        /\ recheckAfter = ShortInterval

\* a drifted cycle after a healthy one, whose interval was the long one
C3_Witness ==
    /\ DriftObserved
    /\ AllX509(filesL)
    /\ lpc = "sleep"
    /\ hist.healthyDone >= 1

C10_TransientKeepsLoopRunning ==
    cyc.met # "none" => lpc # "crashed"

(***************************************************************************)
(* Properties of the admission handler.                                    *)
(***************************************************************************)
Responded == hpc = "done" /\ resp.kind = "response"

\* C4: when the resource that results from applying the policies once is sent
\* through the same policies again, the answer is the empty patch.
C4_SecondApplicationIsEmpty ==
    (DirVariant /\ req.round = 2 /\ Responded) => resp.body.patch.ops = {}

\* the appended part of the result and the entries of new it is made of
Appended(old, out) == SubSeq(out, Len(old) + 1, Len(out))
InOrderOf(new, app) ==
    \A p, q \in DOMAIN app :
      p < q => \E i, j \in DOMAIN new : i < j /\ new[i] = app[p] /\ new[j] = app[q]

\* C5: the env list mergeTaskOptions returns holds, at each index of old, the
\* entry of new when the name is in new and the old entry otherwise, followed
\* by the names only new has, each once, in the order they have in new.
C5_EnvMergeLaw ==
    (mergePc = "returned" /\ ~mergeOut.panic) =>
      LET old == mergeIn.old.env
          new == mergeIn.new.env
          out == mergeOut.opt.env
          app == Appended(old, out)
      IN /\ Len(out) >= Len(old)
         /\ \A i \in DOMAIN old :
              IF old[i].name \in EnvNamesOf(new)
              THEN out[i].name = old[i].name /\ out[i] \in Range(new)
              ELSE out[i] = old[i]
         /\ EnvNamesOf(app) = EnvNamesOf(new) \ EnvNamesOf(old)
         /\ \A p, q \in DOMAIN app : p # q => app[p].name # app[q].name
         /\ \A p \in DOMAIN app : app[p] \in Range(new)
         /\ InOrderOf(new, app)

\* the policies a request is run through: plugin name and skip key
RequestPolicies ==
    IF variant = "single"
    THEN {[name |-> n, skipKey |-> mutfile.mutations[n].escapeKey] :
            n \in DOMAIN mutfile.mutations}
    ELSE {[name |-> PluginNameOf(variant, e.name), skipKey |-> e.opt.skipAnnotation] :
            e \in {x \in Range(dir.files) : IsPolicyFile(variant, x)}}

AllPoliciesReadable ==
    IF variant = "single" THEN mutfile.readOk /\ mutfile.parseOk
    ELSE dir.listOk /\ \A e \in Range(dir.files) : IsPolicyFile(variant, e) => e.state = "ok"

PluginEntry(t, n) == IF n \in DOMAIN t.plugins.kv THEN <<t.plugins.kv[n]>> ELSE <<>>
OptionsFor(t, n) == SelectSeq(t.taskOptions, LAMBDA o : o.for = <<n>>)

\* the operations of the difference that a policy for plugin n accounts for
PolicyOps(raw, target, n) ==
    {o \in CreatePatch(raw, target) :
       \/ o.path = <<"spec", "plugins">>
       \/ o.path = <<"spec", "plugins", n>>
       \/ \E i \in DOMAIN target.taskOptions :
            /\ target.taskOptions[i].for = <<n>>
            /\ o.path = <<"spec", "taskOptions", ToString(i - 1)>>}

\* C6: a policy whose skip key is among the resource's annotations changes
\* neither the plugin map nor the task options, and every other policy of the
\* request is applied and is in the returned patch.
C6_SkipIsPerPolicy ==
    (Responded /\ req.round = 1 /\ req.fault = "none" /\ AllPoliciesReadable) =>
      \A p \in RequestPolicies :
        IF p.skipKey \in DOMAIN req.raw.annotations.kv
        THEN /\ p.name \notin mh.applied
             /\ PluginEntry(tf, p.name) = PluginEntry(req.raw, p.name)
             /\ OptionsFor(tf, p.name) = OptionsFor(req.raw, p.name)
        ELSE /\ p.name \in mh.applied
             /\ PolicyOps(req.raw, Marshal(tf), p.name) \subseteq resp.body.patch.ops

\* C7: no operation of a returned patch has a path that begins with /status.
C7_NoStatusOperation ==
    Responded => \A o \in resp.body.patch.ops : ~HasStatusPrefix(o.path)

AllowingExits == {"mismatch", "badPolicy", "noChange", "patched", "escape"}
DenyingExits == {"decodeError", "marshalError", "diffError", "encodeError"}

JustApplied == DirVariant /\ hpc \in {"loop", "done"} /\ mh.last.kind = "applied"

\* C11: after a policy named N is applied, the plugin map's entry for N is
\* the policy's plugin spec, whether or not an entry for N existed before.
C11_PluginUpsert ==
    JustApplied => PluginEntry(tf, mh.last.name) = <<mh.last.opt.pluginConfig>>

\* the options of t whose for list is exactly <<n>>
SlotsFor(t, n) == {i \in DOMAIN t.taskOptions : t.taskOptions[i].for = <<n>>}
FirstOf(S) == CHOOSE i \in S : \A j \in S : i <= j

\* the option the latest applied policy merged into or appended
SlotOfLast ==
    IF SlotsFor(mh.last.before, mh.last.name) # {}
    THEN FirstOf(SlotsFor(mh.last.before, mh.last.name))
    ELSE Len(mh.last.before.taskOptions) + 1

\* C12: applying a policy named N merges the template into the option whose
\* for is exactly [N] and keeps the length of the list when there is such an
\* option; otherwise it appends the template and the list grows by one.
C12_SlotSelection ==
    JustApplied =>
      LET old == mh.last.before.taskOptions
          new == tf.taskOptions
          template == mh.last.opt.taskOption
          k == SlotOfLast
      IN IF SlotsFor(mh.last.before, mh.last.name) # {}
         THEN /\ Len(new) = Len(old)
              /\ \A i \in DOMAIN old : i # k => new[i] = old[i]
              /\ \E m \in MergeOutcomes(old[k], template) :
                   ~m.panic /\ [new[k] EXCEPT !.restartPolicy = m.opt.restartPolicy]
                               = [m.opt EXCEPT !.for = <<mh.last.name>>]
         ELSE /\ Len(new) = Len(old) + 1
              /\ \A i \in DOMAIN old : new[i] = old[i]
              /\ [new[k] EXCEPT !.for = template.for,
                                !.restartPolicy = template.restartPolicy] = template

\* a policy met an option for several names, among them its own, and appended
C12_Witness ==
    /\ JustApplied
    /\ \E i \in DOMAIN mh.last.before.taskOptions :
         /\ Len(mh.last.before.taskOptions[i].for) > 1
         /\ mh.last.before.taskOptions[i].for[1] = mh.last.name
    /\ Len(tf.taskOptions) = Len(mh.last.before.taskOptions) + 1

\* C13: the option a policy named N merged or appended has the for list
\* [N], whatever the template's for list is, and every applied policy has an
\* option whose for list is its own name.
C13_ForIsOwnName ==
    /\ JustApplied =>
         /\ SlotOfLast \in DOMAIN tf.taskOptions
         /\ tf.taskOptions[SlotOfLast].for = <<mh.last.name>>
    /\ (DirVariant /\ hpc \in {"loop", "done"}) =>
         \A n \in mh.applied : SlotsFor(tf, n) # {}

\* the template named another plugin
C13_Witness ==
    /\ JustApplied
    /\ mh.last.opt.taskOption.for \notin {<<>>, <<mh.last.name>>}
    /\ tf.taskOptions[SlotOfLast].for = <<mh.last.name>>
    /\ hpc = "done" /\ mh.exit = "patched"

\* C14: the option of an applied policy has the template's restart policy
\* when the template sets one and Always when it does not, after a merge as
\* after an append.
C14_RestartPolicySet ==
    JustApplied =>
      LET template == mh.last.opt.taskOption
          slot == tf.taskOptions[SlotOfLast]
      IN /\ slot.restartPolicy # ""
         /\ slot.restartPolicy =
              IF template.restartPolicy # "" THEN template.restartPolicy ELSE "Always"

\* a merge replaced the restart policy the option had
C14_Witness ==
    /\ JustApplied
    /\ SlotsFor(mh.last.before, mh.last.name) # {}
    /\ mh.last.opt.taskOption.restartPolicy = "Never"
    /\ mh.last.before.taskOptions[SlotOfLast].restartPolicy = "Always"
    /\ tf.taskOptions[SlotOfLast].restartPolicy = "Never"

\* the key-wise union of two label maps, new's value on a key both have
UnionOf(old, new) ==
    [k \in DOMAIN old.kv \cup DOMAIN new.kv |->
       IF k \in DOMAIN new.kv THEN new.kv[k] ELSE old.kv[k]]

\* C15: for every old and new option, an old one without labels map or
\* annotations map included, mergeTaskOptions returns an option whose labels
\* and annotations are the key-wise union of old's and new's, new's value
\* winning.
C15_LabelMergeLaw ==
    mergePc = "returned" =>
      /\ ~mergeOut.panic
      /\ \A k \in DOMAIN UnionOf(mergeIn.old.labels, mergeIn.new.labels) :
           /\ k \in DOMAIN mergeOut.opt.labels.kv
           /\ mergeOut.opt.labels.kv[k] = UnionOf(mergeIn.old.labels, mergeIn.new.labels)[k]
      /\ DOMAIN mergeOut.opt.labels.kv
           = DOMAIN UnionOf(mergeIn.old.labels, mergeIn.new.labels)
      /\ \A k \in DOMAIN UnionOf(mergeIn.old.annotations, mergeIn.new.annotations) :
           /\ k \in DOMAIN mergeOut.opt.annotations.kv
           /\ mergeOut.opt.annotations.kv[k]
                = UnionOf(mergeIn.old.annotations, mergeIn.new.annotations)[k]
      /\ DOMAIN mergeOut.opt.annotations.kv
           = DOMAIN UnionOf(mergeIn.old.annotations, mergeIn.new.annotations)

(***************************************************************************)
(* Further properties of the certificate lifecycle.                        *)
(***************************************************************************)
\* C16: a cycle that found the files equal to the secret and the leaf
\* invalid writes a regenerated leaf to the secret, does no webhook lookup or
\* creation and no readiness send, and sleeps the short interval.
C16_Rotation ==
    /\ cyc.outcome = "rotating" =>
         /\ cyc.read /\ SecretEqualsFiles(secretL, filesL)
         /\ ~cyc.lookup /\ ~cyc.whCreated /\ ~cyc.sent
         /\ hist.nUpdate = 0
         /\ lpc \in {"rotate", "sleep", "crashed", "exited"}
    /\ (cyc.outcome = "rotating" /\ lpc = "sleep") =>
         /\ cyc.updatedSecret
         /\ recheckAfter = ShortInterval
         /\ secret.exists
         /\ secret.data["tls.crt"] = PemBlob(nGen)
         /\ secret.data["tls.key"] = PemBlob(nGen)
         /\ secret.data["tls.crt"] # filesL["tls.crt"]
         /\ secret.data["ca.crt"] = filesL["ca.crt"]
         /\ secret.data["ca.key"] = filesL["ca.key"]
         /\ issued[nGen].signer = filesL["ca.crt"].gen
    /\ cyc.updatedSecret => cyc.outcome = "rotating"

C16_Witness ==
    /\ cyc.outcome = "rotating" /\ lpc = "sleep" /\ cyc.updatedSecret
    /\ secret.data # secretL

\* the leaf the cycle read, when it is a certificate some CA signed
LeafRead == issued[filesL["tls.crt"].gen]
LeafSignedByCARead ==
    /\ filesL["tls.crt"].kind = "pem" /\ filesL["ca.crt"].kind = "pem"
    /\ filesL["tls.crt"].gen \in DOMAIN issued
    /\ LeafRead.signer = filesL["ca.crt"].gen

\* C17: a leaf signed by the CA is classified invalid exactly when
\* verification at now + 30 days fails, that is when it expires before
\* now + 30 days, and valid when its expiry is at or beyond now + 30 days.
C17_ForwardDatedValidity ==
    (cyc.outcome \in {"healthy", "rotating"} /\ LeafSignedByCARead) =>
      /\ cyc.outcome = "rotating" <=> LeafRead.notAfter < cyc.at + ValidityWindowDays
      /\ cyc.outcome = "healthy" <=> LeafRead.notAfter >= cyc.at + ValidityWindowDays

\* a leaf that is still good today and not in 30 days
C17_Witness ==
    /\ cyc.outcome = "rotating" /\ LeafSignedByCARead
    /\ LeafRead.notAfter >= cyc.at
    /\ LeafRead.notAfter < cyc.at + ValidityWindowDays

\* C18: a cycle that finds one of the four files missing or empty validates
\* no format, compares nothing, rotates nothing, registers nothing, sends no
\* readiness, and sleeps the short interval.
C18_WaitingForMaterial ==
    /\ cyc.missing =>
         /\ cyc.outcome = "waiting"
         /\ ~cyc.read /\ filesL = NoData
         /\ ~cyc.updatedSecret /\ ~cyc.lookup /\ ~cyc.whCreated /\ ~cyc.sent
         /\ lpc \in {"sleep", "exited"}
         /\ recheckAfter = ShortInterval
    /\ cyc.outcome = "waiting" => cyc.missing

\* the files went missing after a healthy cycle
C18_Witness ==
    /\ cyc.missing /\ cyc.outcome = "waiting" /\ lpc = "sleep"
    /\ hist.healthyDone >= 1 /\ started

(***************************************************************************)
(* Bootstrap: the process starts with no secret, no mounted files and no   *)
(* webhook registration; the loop is scheduled fairly.                     *)
(***************************************************************************)
BootstrapInit ==
    /\ CertInit
    /\ ~secret.exists
    /\ ~wh.exists
    /\ mounted = NoData
    /\ MutIdle

\* a step of the certMgmt goroutine that is no panic
LoopStep ==
    \/ GetSecretFound \/ GetSecretCreate \/ StatFiles \/ ReadAndClassify \/ Rotate
    \/ WhGet \/ WhCreate \/ Ready \/ SendReady \/ Sleep

SpecBootstrap == BootstrapInit /\ [][Next]_vars /\ WF_vars(LoopStep)

\* the mounted files equal the stored bundle, and the bundle is valid
MountedValid ==
    /\ secret.exists
    /\ mounted = secret.data
    /\ AllX509(mounted)
    /\ isCertValid(mounted["ca.crt"], mounted["tls.crt"], now, issued)

Bootstrapped == wh.exists /\ hist.nSent = 1 /\ started

\* C19: from a start without secret and registration the first cycle stores
\* a bundle; if from some time on the mounted files equal the stored bundle
\* and the bundle is valid, and no call of the loop fails, the registration
\* eventually exists and readiness is eventually signalled.
C19_BootstrapLiveness ==
    /\ [](lpc \notin {"getSecret", "crashed"} => secret.exists)
    /\ (<>[]MountedValid /\ [](lpc # "crashed")) => <>Bootstrapped

C19_Witness ==
    /\ Bootstrapped /\ MountedValid
    /\ ~hist.whInit /\ hist.nCreate = 1
    /\ secret.data = NewBundleData(1)
    /\ mpc = "serving"

(***************************************************************************)
(* Further properties of the admission handler.                            *)
(***************************************************************************)
\* the request reaches mutate and its object decodes
ReachesPolicies == req.fault \in {"none", "marshal", "diff", "encode"}

\* a policy file of the request cannot be read or parsed
BadPolicyFile ==
    IF variant = "single"
    THEN req.fault \notin {"contentType", "body", "notReview"}
         /\ (~mutfile.readOk \/ ~mutfile.parseOk)
    ELSE /\ ReachesPolicies /\ dir.listOk
         /\ \E e \in Range(dir.files) : IsPolicyFile(variant, e) /\ e.state # "ok"

\* C20: a request that visits a policy file it cannot read or parse is
\* answered, without a crash, by allowed=true and the empty patch, whatever
\* earlier policies of the request changed.
C20_BadPolicyFileIsNoOp ==
    (hpc = "done" /\ BadPolicyFile /\ mh.exit # "mergePanic") =>
      /\ resp.kind = "response"
      /\ resp.body.allowed
      /\ resp.body.patchType = "JSONPatch"
      /\ resp.body.patch.present /\ resp.body.patch.ops = {}
      /\ ~resp.body.message

\* an earlier policy had changed the resource
C20_Witness ==
    /\ hpc = "done" /\ DirVariant /\ BadPolicyFile
    /\ mh.applied # {}
    /\ CreatePatch(req.raw, Marshal(tf)) # {}
    /\ resp.kind = "response" /\ resp.body.allowed /\ resp.body.patch.ops = {}

(***************************************************************************)
(* Failures of one request.                                                *)
(***************************************************************************)
\* one of the failures a request can meet: the resource is not a terraform,
\* the policy directory or a policy file is unreadable or unparsable, the
\* object does not decode, serialization or the diff fails
PerRequestFailure ==
    \/ req.fault \in {"resource", "decode", "marshal", "diff"}
    \/ DirVariant /\ ReachesPolicies /\ ~dir.listOk
    \/ BadPolicyFile

\* C21: a request with content type application/json whose body is an
\* admission review, and which meets one of the per-request failures, gets
\* an admission response written.
C21_FailureIsAnswered ==
    (hpc = "done" /\ PerRequestFailure /\ mh.exit # "mergePanic") =>
      resp.kind = "response"

\* the operations of the diff that do not lie under /status
OutsideStatus(patch) == {o \in patch : o.path[1] # "status"}

\* C22: in the directory-based handlers, when the diff between the inbound
\* object and the mutated one holds nothing but status operations, the
\* response is allowed=true with patch type JSONPatch and the empty patch,
\* present and not absent.
C22_EmptyPatchIsExplicit ==
    (/\ hpc = "done" /\ DirVariant /\ dir.listOk
     /\ req.fault \in {"none", "encode"}
     /\ mh.exit # "mergePanic"
     /\ OutsideStatus(CreatePatch(req.raw, Marshal(tf))) = {}) =>
      /\ resp.kind = "response"
      /\ resp.body.allowed
      /\ resp.body.patchType = "JSONPatch"
      /\ resp.body.patch.present
      /\ resp.body.patch.ops = {}
      /\ ~resp.body.message

\* the resource already carried the mutation of an applied policy, and the
\* diff held status operations only
C22_Witness ==
    /\ hpc = "done" /\ DirVariant
    /\ mh.exit = "noChange"
    /\ mh.applied # {}
    /\ mh.diff # {}
    /\ resp.body.patch.present /\ resp.body.patch.ops = {}

(***************************************************************************)
(* Determinism of mutate.                                                  *)
(***************************************************************************)
\* the latest policy, applied again to the same resource, can leave one
\* resource only
DirStepDeterministic ==
    (DirVariant /\ mh.last.kind = "applied") =>
      Cardinality(ApplyOutcomes(variant, mh.last.before, mh.last.name, mh.last.opt)) = 1

\* each mutation still to apply can leave one resource only
SingleStepDeterministic ==
    (variant = "single" /\ hpc = "loop") =>
      \A name \in todo :
        Cardinality(SingleOutcomes(MakeAnnotations(tf), name, mutfile.mutations[name])) = 1

\* the mutation named a is applied before the one named b
SingleOrderLexicographic ==
    variant = "single" => ~("b" \in mh.applied /\ "a" \in todo)

\* C23: policies are applied in lexicographic order of their names, and
\* applying a policy to a given resource has one possible result, the order
\* of the env and env-from entries included.
C23_MutationIsDeterministic ==
    /\ DirStepDeterministic
    /\ SingleStepDeterministic
    /\ SingleOrderLexicographic

(***************************************************************************)
(* Further properties of the lifecycle loop.                               *)
(***************************************************************************)
\* C24: once readiness has been signalled the loop never again stands at the
\* send on the readiness channel, and every healthy cycle from then on is
\* followed by the start of a further cycle unless the process ends.
C24_LoopKeepsPolling ==
    /\ [](started => lpc # "send")
    /\ (started /\ cyc.outcome = "healthy") ~> (lpc \in {"getSecret", "crashed", "exited"})

\* two healthy cycles are over, one signal was sent, a further cycle starts
C24_Witness ==
    /\ started /\ hist.nSent = 1
    /\ hist.healthyDone >= 2
    /\ hist.sentAtHealthy = 0
    /\ lpc = "getSecret"
    /\ mpc = "serving"

\* the step stores a new secret in a cycle that found none
SecretCreatedByCycle ==
    /\ ~secret.exists /\ secret'.exists
    /\ lpc = "getSecret"
    /\ cyc'.createdSecret

\* the step updates the secret in a cycle that read four well-formed files
\* equal to the secret, whose leaf is not valid for the coming window
SecretUpdatedByRotation ==
    /\ secret.exists /\ secret'.exists
    /\ lpc = "rotate"
    /\ cyc.read /\ AllX509(filesL) /\ filesL = secretL
    /\ ~isCertValid(filesL["ca.crt"], filesL["tls.crt"], cyc.at, issued)
    /\ cyc'.updatedSecret

\* C25: the stored secret changes only by the create of a cycle that found
\* it absent and by the update of a rotating cycle; a waiting, badly formed,
\* drifted or healthy cycle leaves the secret as it read it, and no step
\* deletes the secret.
C25_SecretSingleWriter ==
    /\ [][/\ secret.exists => secret'.exists
          /\ secret' # secret => SecretCreatedByCycle \/ SecretUpdatedByRotation]_vars
    /\ [](cyc.outcome \in {"waiting", "badformat", "drifted", "healthy"} =>
            /\ ~cyc.updatedSecret
            /\ secret = [exists |-> TRUE, data |-> secretL])

\* the run had a healthy cycle that created the registration, and a later
\* cycle rotated the secret
C25_Witness ==
    /\ cyc.updatedSecret
    /\ hist.healthyDone >= 1
    /\ nGen = 2
    /\ secret.data = UpdatedTLSData(NewBundleData(1), 2)
    /\ secretL = NewBundleData(1)
    /\ ~hist.whInit /\ hist.nCreate = 1

\* the cycle read four well-formed files equal to the secret, with a leaf
\* valid for the coming window
ReadHealthy ==
    /\ cyc.read /\ AllX509(filesL) /\ filesL = secretL
    /\ isCertValid(filesL["ca.crt"], filesL["tls.crt"], cyc.at, issued)

\* C26: when a cycle reaches its sleep, the interval is the long one if the
\* cycle was healthy (files equal to the secret, certificate valid) and the
\* short one after a waiting, badly formed, drifted or rotating cycle,
\* whatever the interval was before.
C26_IntervalFollowsOutcome ==
    lpc = "sleep" =>
      /\ cyc.outcome \in {"waiting", "badformat", "drifted", "rotating", "healthy"}
      /\ (cyc.outcome = "healthy") = ReadHealthy
      /\ recheckAfter = IF ReadHealthy THEN LongInterval ELSE ShortInterval

\* a badly formed file in a cycle after a healthy one: the interval is short again
C26_Witness ==
    /\ lpc = "sleep"
    /\ cyc.outcome = "badformat"
    /\ hist.healthyDone >= 1
    /\ recheckAfter = ShortInterval

C28_RegistrationPrecedesReadiness ==
    /\ (lpc = "send" \/ cyc.sent) =>
         /\ cyc.outcome = "healthy"
         /\ cyc.lookup
         /\ wh.exists
         /\ (cyc.whCreated \/ hist.whInit \/ hist.nCreate >= 1)
    /\ hist.nSent >= 1 => wh.exists

\* the cycle that signalled readiness had created the registration
C28_Witness ==
    /\ cyc.sent /\ cyc.lookup /\ cyc.whCreated
    /\ wh.exists /\ wh.caBundle = filesL["ca.crt"]
    /\ lpc = "sleep"
    /\ mpc = "run"

\* C29: a cycle that read well-formed files differing from the secret it
\* read is drifted, does not reach the update and updates nothing; every
\* update of the secret is made by a cycle that read files equal to the
\* secret being replaced.  After a rotation the mounted files hold the old
\* leaf until the kubelet has projected the new one, so no second rotation
\* is made against them.
C29_NoRotationAgainstStaleMount ==
    /\ []((cyc.read /\ AllX509(filesL) /\ filesL # secretL) =>
            /\ cyc.outcome = "drifted"
            /\ lpc # "rotate"
            /\ ~cyc.updatedSecret)
    /\ [][(secret.exists /\ secret' # secret) =>
            (cyc.read /\ filesL = secret.data)]_vars

\* the cycle after a rotation read the bundle of before the rotation
C29_Witness ==
    /\ lpc = "sleep"
    /\ cyc.outcome = "drifted"
    /\ nGen = 2
    /\ secret.data = UpdatedTLSData(NewBundleData(1), 2)
    /\ secretL = secret.data
    /\ filesL = NewBundleData(1)
    /\ ~cyc.updatedSecret

\* C30: in a cycle that created the registration, the CA bundle of the
\* registration is the ca.crt of the secret the cycle read at its start.
C30_CreatedBundleIsStoredCA ==
    cyc.whCreated => wh.caBundle = secretL["ca.crt"]

(***************************************************************************)
(* Frame of one policy application, and the two directory-based variants.  *)
(***************************************************************************)
\* the entries of the plugin map of t under keys other than n
OtherPlugins(t, n) == [k \in DOMAIN t.plugins.kv \ {n} |-> t.plugins.kv[k]]

\* C31: applying a policy named N leaves every plugin-map entry under
\* another key as it was, and every task option other than the one it
\* merged into or appended: no option is removed or moved, and at most one
\* is added, at the end.
C31_PolicyFrame ==
    JustApplied =>
      LET old == mh.last.before.taskOptions
          new == tf.taskOptions
          k == SlotOfLast
      IN /\ OtherPlugins(tf, mh.last.name) = OtherPlugins(mh.last.before, mh.last.name)
         /\ Len(new) = IF k <= Len(old) THEN Len(old) ELSE Len(old) + 1
         /\ \A i \in DOMAIN old : i # k => new[i] = old[i]

\* policy b was applied to a resource with a plugin a, an option for a and
\* b together and an option for a alone
C31_Witness ==
    /\ JustApplied
    /\ mh.last.name = "b"
    /\ "a" \in DOMAIN mh.last.before.plugins.kv
    /\ \E i \in DOMAIN mh.last.before.taskOptions :
         mh.last.before.taskOptions[i].for = <<"a", "b">>
    /\ \E i \in DOMAIN mh.last.before.taskOptions :
         mh.last.before.taskOptions[i].for = <<"a">>
    /\ "b" \in DOMAIN tf.plugins.kv
    /\ Len(tf.taskOptions) = Len(mh.last.before.taskOptions) + 1

\* what variant v may leave of the plugin map and of the task-option list
\* when the latest applied policy is applied to the resource it met
EngineResults(v) ==
    {[panic |-> o.panic, plugins |-> o.tf.plugins, taskOptions |-> o.tf.taskOptions] :
       o \in ApplyOutcomes(v, mh.last.before, mh.last.name, mh.last.opt)}

\* C32: applied to the same resource, a policy leaves the same plugin map
\* and the same task-option list in the v1alpha2 and in the v1beta1 variant.
C32_VariantsAgree ==
    JustApplied => EngineResults("v1alpha2") = EngineResults("v1beta1")

====
